---- MODULE Spec2Model ----
(***************************************************************************)
(* RuneScribe execution runtime: the variable environment (SpiritRealm),   *)
(* the two-slot execution engine (MysticalExecutor) and the statement      *)
(* interpreter (SpellInterpreter).                                         *)
(*                                                                         *)
(* Python values are records [t |-> <type(value).__name__>, v |-> payload] *)
(*   int       v is the integer                                            *)
(*   bool      v is TRUE / FALSE          (bool is a subclass of int)      *)
(*   float     v is <<n, d>>, the reduced fraction n/d with d > 0          *)
(*   str       v is the sequence of its one-character strings              *)
(*   NoneType  v is <<>>                                                   *)
(*   list      v is the sequence of its elements                           *)
(*   dict      v is the sequence of its <<key, value>> pairs               *)
(*   datetime  v is the ISO date text it was parsed from                   *)
(* A float is tracked exactly: the model follows only floats that are      *)
(* dyadic fractions of small magnitude (FloatExact), for which IEEE        *)
(* arithmetic and rational arithmetic agree.                               *)
(***************************************************************************)
EXTENDS Integers, Sequences, FiniteSets, TLC

(***************************************************************************)
(* Bounds of the model.                                                    *)
(***************************************************************************)
\* statements one program run may execute
MaxSteps == 4
\* largest denominator exponent of a tracked float (d divides 2^MaxFracBits)
MaxFracBits == 6
\* largest magnitude of an integer typed in for the sum program
MaxOperand == 12

(***************************************************************************)
(* Value constructors.                                                     *)
(***************************************************************************)
None == [t |-> "NoneType", v |-> <<>>]
MkInt(n) == [t |-> "int", v |-> n]
MkBool(b) == [t |-> "bool", v |-> b]
MkStr(s) == [t |-> "str", v |-> s]
MkList(s) == [t |-> "list", v |-> s]
MkDict(s) == [t |-> "dict", v |-> s]
MkDatetime(s) == [t |-> "datetime", v |-> s]

Abs(n) == IF n < 0 THEN -n ELSE n

RECURSIVE Gcd(_, _)
Gcd(a, b) == IF b = 0 THEN a ELSE Gcd(b, a % b)

\* the float n/d (d # 0), as a reduced fraction with a positive denominator
MkFloat(n, d) ==
    LET g == Gcd(Abs(n), Abs(d))
        s == IF d < 0 THEN -1 ELSE 1
    IN  [t |-> "float", v |-> <<(s * n) \div g, Abs(d) \div g>>]

RECURSIVE Pow(_, _)
Pow(b, e) == IF e = 0 THEN 1 ELSE b * Pow(b, e - 1)

\* a float the model tracks exactly: a dyadic fraction
FloatExact(x) == x.t = "float" => Pow(2, MaxFracBits) % x.v[2] = 0

(***************************************************************************)
(* Text: str(value), int(text), float(text), text.lower().                 *)
(***************************************************************************)
Digits == <<"0", "1", "2", "3", "4", "5", "6", "7", "8", "9">>
IsDigit(c) == \E i \in 1..10 : Digits[i] = c
DigitVal(c) == (CHOOSE i \in 1..10 : Digits[i] = c) - 1

Upper == <<"A","B","C","D","E","F","G","H","I","J","K","L","M",
           "N","O","P","Q","R","S","T","U","V","W","X","Y","Z">>
Lowercase == <<"a","b","c","d","e","f","g","h","i","j","k","l","m",
               "n","o","p","q","r","s","t","u","v","w","x","y","z">>
LowerChar(c) ==
    IF \E i \in 1..26 : Upper[i] = c
    THEN Lowercase[CHOOSE i \in 1..26 : Upper[i] = c]
    ELSE c
\* str.lower()
Lower(s) == [i \in 1..Len(s) |-> LowerChar(s[i])]

RECURSIVE Concat(_)
\* the concatenation of a sequence of sequences
Concat(ss) == IF ss = <<>> THEN <<>> ELSE Head(ss) \o Concat(Tail(ss))

RECURSIVE StrNat(_)
StrNat(n) == IF n < 10 THEN <<Digits[n + 1]>>
             ELSE StrNat(n \div 10) \o <<Digits[(n % 10) + 1]>>
\* str(n) of an int
StrInt(n) == IF n < 0 THEN <<"-">> \o StrNat(-n) ELSE StrNat(n)

RECURSIVE FracDigits(_, _)
\* the decimal digits of r/d (0 <= r < d), d a divisor of a power of ten
FracDigits(r, d) ==
    IF r = 0 THEN <<>>
    ELSE <<Digits[((r * 10) \div d) + 1]>> \o FracDigits((r * 10) % d, d)
\* repr of a tracked float: "-0.5", "3.0", "1.25"
StrFloat(n, d) ==
    LET a == Abs(n)
        f == FracDigits(a % d, d)
    IN  (IF n < 0 THEN <<"-">> ELSE <<>>) \o StrNat(a \div d) \o <<".">>
        \o (IF f = <<>> THEN <<"0">> ELSE f)

RECURSIVE Str(_)
RECURSIVE StrItems(_)
\* repr of a value, as it stands inside a list or dict: text is quoted
Repr(x) == IF x.t = "str" THEN <<"'">> \o x.v \o <<"'">> ELSE Str(x)
StrItems(s) ==
    IF s = <<>> THEN <<>>
    ELSE IF Len(s) = 1 THEN Head(s)
    ELSE Head(s) \o <<",", " ">> \o StrItems(Tail(s))
\* str(value)
Str(x) ==
    CASE x.t = "str" -> x.v
      [] x.t = "int" -> StrInt(x.v)
      [] x.t = "bool" -> IF x.v THEN <<"T","r","u","e">> ELSE <<"F","a","l","s","e">>
      [] x.t = "float" -> StrFloat(x.v[1], x.v[2])
      [] x.t = "NoneType" -> <<"N","o","n","e">>
      [] x.t = "list" ->
            <<"[">> \o StrItems([i \in 1..Len(x.v) |-> Repr(x.v[i])]) \o <<"]">>
      [] x.t = "dict" ->
            <<"{">> \o StrItems([i \in 1..Len(x.v) |->
                          Repr(x.v[i][1]) \o <<":", " ">> \o Repr(x.v[i][2])])
            \o <<"}">>
      [] x.t = "datetime" ->
            x.v \o <<" ","0","0",":","0","0",":","0","0">>

RECURSIVE NatOf(_, _)
\* the number a non-empty digit string denotes in the given base
NatOf(s, base) ==
    IF Len(s) = 1 THEN DigitVal(s[1])
    ELSE NatOf(SubSeq(s, 1, Len(s) - 1), base) * base + DigitVal(s[Len(s)])

AllDigits(s) == \A i \in 1..Len(s) : IsDigit(s[i])
HasSign(s) == Len(s) > 0 /\ s[1] \in {"-", "+"}
Unsigned(s) == IF HasSign(s) THEN Tail(s) ELSE s
Sign(s) == IF HasSign(s) /\ s[1] = "-" THEN -1 ELSE 1

\* int(text): an optional sign and one or more digits, ValueError otherwise
IntParses(s) == Len(Unsigned(s)) > 0 /\ AllDigits(Unsigned(s))
IntOf(s) == Sign(s) * NatOf(Unsigned(s), 10)

Contains(s, c) == \E i \in 1..Len(s) : s[i] = c

\* float(text): an optional sign, digits with at most one point and at least
\* one digit, ValueError otherwise
FloatParses(s) ==
    LET u == Unsigned(s)
        points == {i \in 1..Len(u) : u[i] = "."}
    IN  /\ Cardinality(points) <= 1
        /\ \A i \in 1..Len(u) : IsDigit(u[i]) \/ u[i] = "."
        /\ \E i \in 1..Len(u) : IsDigit(u[i])
FloatOfText(s) ==
    LET u == Unsigned(s)
        p == IF Contains(u, ".") THEN CHOOSE i \in 1..Len(u) : u[i] = "."
             ELSE Len(u) + 1
        whole == SubSeq(u, 1, p - 1)
        frac == SubSeq(u, p + 1, Len(u))
        den == Pow(10, Len(frac))
        num == (IF whole = <<>> THEN 0 ELSE NatOf(whole, 10)) * den
               + (IF frac = <<>> THEN 0 ELSE NatOf(frac, 10))
    IN  MkFloat(Sign(s) * num, den)

(***************************************************************************)
(* Environment: realm-driven coercion of raw input text (SpiritRealm).     *)
(* A call either returns a value or raises; exc names the exception class  *)
(* as far as the callers' except clauses tell classes apart: "Exception"   *)
(* is caught by `except Exception`, "SystemExit" is not.                   *)
(***************************************************************************)
Returned(x) == [ok |-> TRUE, val |-> x, exc |-> "none"]
Raised(e) == [ok |-> FALSE, val |-> None, exc |-> e]

\* RealmType: the members' values
Realms == {"mortal", "spirit", "shadow", "void", "astral", "divine", "temporal"}

\* a variant that keeps every input as text
ConvertMortalText(value) == Returned(MkStr(value))

\* SpiritRealm._convert_mortal
ConvertMortal(value) ==
    IF IntParses(value) THEN Returned(MkInt(IntOf(value)))
    ELSE IF Len(value) = 1 THEN Returned(MkStr(value))
    ELSE Returned(MkStr(value))

\* SpiritRealm._convert_spirit
ConvertSpirit(value) ==
    IF Contains(value, ".") /\ FloatParses(value) THEN Returned(FloatOfText(value))
    ELSE IF IntParses(value) THEN Returned(MkInt(IntOf(value)))
    ELSE Returned(MkStr(value))

TrueWords == {<<"t","r","u","e">>, <<"y","e","s">>, <<"l","i","g","h","t">>,
              <<"1">>, <<"o","n">>}
FalseWords == {<<"f","a","l","s","e">>, <<"n","o">>, <<"d","a","r","k">>,
               <<"0">>, <<"o","f","f">>}
AllBinary(value) == \A i \in 1..Len(value) : value[i] \in {"0", "1"}

\* a variant that tries the base-2 reading before the two word lists
ConvertShadowBinaryFirst(value) ==
    IF AllBinary(value)
    THEN IF value = <<>> THEN Raised("Exception")
         ELSE Returned(MkInt(NatOf(value, 2)))
    ELSE IF Lower(value) \in TrueWords THEN Returned(MkBool(TRUE))
    ELSE IF Lower(value) \in FalseWords THEN Returned(MkBool(FALSE))
    ELSE Returned(MkBool(value # <<>>))

\* SpiritRealm._convert_shadow; int(value, 2) raises ValueError on the empty text
ConvertShadow(value) ==
    IF Lower(value) \in TrueWords THEN Returned(MkBool(TRUE))
    ELSE IF Lower(value) \in FalseWords THEN Returned(MkBool(FALSE))
    ELSE IF AllBinary(value)
         THEN IF value = <<>> THEN Raised("Exception")
              ELSE Returned(MkInt(NatOf(value, 2)))
    ELSE Returned(MkBool(value # <<>>))

NullWords == {<<"n","u","l","l">>, <<"n","o","n","e">>, <<"v","o","i","d">>, <<>>}

RECURSIVE Split(_, _)
\* str.split(sep) for a one-character separator
Split(s, sep) ==
    IF ~Contains(s, sep) THEN <<s>>
    ELSE LET p == CHOOSE i \in 1..Len(s) :
                     s[i] = sep /\ \A j \in 1..(i - 1) : s[j] # sep
         IN  <<SubSeq(s, 1, p - 1)>> \o Split(SubSeq(s, p + 1, Len(s)), sep)

StartsWith(s, c) == Len(s) > 0 /\ s[1] = c
EndsWith(s, c) == Len(s) > 0 /\ s[Len(s)] = c

\* a decimal integer literal of Python source: no leading zero
IsIntLiteral(s) ==
    /\ IntParses(s)
    /\ (Len(Unsigned(s)) > 1 => Unsigned(s)[1] # "0")
\* the call exit(): the site builtin raises SystemExit
IsExitCall(s) == s = <<"e","x","i","t","(",")">>

\* eval of one element of a display: an integer literal is its value, the call
\* exit() raises SystemExit, a name no scope binds raises NameError, and any
\* other text of the model's inputs is no expression (SyntaxError)
EvalItem(s) ==
    IF IsIntLiteral(s) THEN Returned(MkInt(IntOf(s)))
    ELSE IF IsExitCall(s) THEN Raised("SystemExit")
    ELSE Raised("Exception")

\* eval(raw_value) of a text delimited by [ and ]: a list display
EvalList(raw) ==
    LET inner == SubSeq(raw, 2, Len(raw) - 1)
        items == IF inner = <<>> THEN <<>> ELSE Split(inner, ",")
        rs == [i \in 1..Len(items) |-> EvalItem(items[i])]
        bad == {i \in 1..Len(items) : ~rs[i].ok}
    IN  IF Len(raw) < 2 THEN Raised("Exception")
        ELSE IF bad = {}
        THEN Returned(MkList([i \in 1..Len(items) |-> rs[i].val]))
        ELSE rs[CHOOSE i \in bad : \A j \in bad : i <= j]

\* eval(raw_value) of a text delimited by { and }: {} is the empty dict; the
\* model's other inputs of this shape hold a single element, whose failure is
\* the display's (a set display is not among the model's inputs)
EvalDict(raw) ==
    LET inner == SubSeq(raw, 2, Len(raw) - 1)
    IN  IF Len(raw) < 2 THEN Raised("Exception")
        ELSE IF inner = <<>> THEN Returned(MkDict(<<>>))
        ELSE IF IsExitCall(inner) THEN Raised("SystemExit")
        ELSE Raised("Exception")

DaysIn(y, m) ==
    IF m \in {4, 6, 9, 11} THEN 30
    ELSE IF m = 2
         THEN IF (y % 4 = 0 /\ y % 100 # 0) \/ y % 400 = 0 THEN 29 ELSE 28
    ELSE 31
\* datetime.fromisoformat accepts the text: the form YYYY-MM-DD of a valid date
IsIsoDate(s) ==
    /\ Len(s) = 10
    /\ s[5] = "-" /\ s[8] = "-"
    /\ \A i \in {1, 2, 3, 4, 6, 7, 9, 10} : IsDigit(s[i])
    /\ LET y == NatOf(SubSeq(s, 1, 4), 10)
           m == NatOf(SubSeq(s, 6, 7), 10)
           d == NatOf(SubSeq(s, 9, 10), 10)
       IN  y >= 1 /\ m \in 1..12 /\ d >= 1 /\ d <= DaysIn(y, m)

\* the body of the try block of SpiritRealm._convert_by_realm
ConvertRule(raw_value, realm) ==
    CASE realm = "mortal" -> ConvertMortal(raw_value)
      [] realm = "spirit" -> ConvertSpirit(raw_value)
      [] realm = "shadow" -> ConvertShadow(raw_value)
      [] realm = "void" ->
            IF Lower(raw_value) \in NullWords THEN Returned(None)
            ELSE Returned(MkStr(raw_value))
      [] realm = "astral" ->
            IF StartsWith(raw_value, "[") /\ EndsWith(raw_value, "]")
            THEN EvalList(raw_value)
            ELSE IF Contains(raw_value, ",")
            THEN LET parts == Split(raw_value, ",")
                 IN  Returned(MkList([i \in 1..Len(parts) |-> MkStr(parts[i])]))
            ELSE Returned(MkList(<<MkStr(raw_value)>>))
      [] realm = "divine" ->
            IF StartsWith(raw_value, "{") /\ EndsWith(raw_value, "}")
            THEN EvalDict(raw_value)
            ELSE Returned(MkDict(<<<<MkStr(<<"v","a","l","u","e">>), MkStr(raw_value)>>>>))
      [] realm = "temporal" ->
            IF IsIsoDate(raw_value) THEN Returned(MkDatetime(raw_value))
            ELSE Returned(MkStr(raw_value))
      [] OTHER -> Returned(MkStr(raw_value))

\* SpiritRealm._convert_by_realm: `except Exception` falls back to the raw text
ConvertByRealm(raw_value, realm) ==
    LET r == ConvertRule(raw_value, realm)
    IN  IF ~r.ok /\ r.exc = "Exception" THEN Returned(MkStr(raw_value)) ELSE r

\* 2**31 in RealmTypeInference.infer_spirit_type, as its decimal digits
LongThreshold == <<"2","1","4","7","4","8","3","6","4","8">>
RECURSIVE StripZeros(_)
StripZeros(s) == IF Len(s) > 1 /\ s[1] = "0" THEN StripZeros(Tail(s)) ELSE s
\* a < b for two digit strings of the same length
DigitsLess(a, b) ==
    \E i \in 1..Len(a) :
        /\ DigitVal(a[i]) < DigitVal(b[i])
        /\ \A j \in 1..(i - 1) : a[j] = b[j]
\* abs(int(value)) > 2**31, decided on the digits of value
ExceedsLong(value) ==
    LET u == StripZeros(Unsigned(value))
    IN  \/ Len(u) > Len(LongThreshold)
        \/ Len(u) = Len(LongThreshold) /\ DigitsLess(LongThreshold, u)

\* RealmTypeInference.infer_mortal_type
InferMortalType(value) ==
    IF IntParses(value) THEN "int"
    ELSE IF Len(value) = 1 THEN "char"
    ELSE "string"

\* RealmTypeInference.infer_spirit_type
InferSpiritType(value) ==
    IF Contains(value, ".")
    THEN IF FloatParses(value) THEN "double" ELSE "string"
    ELSE IF IntParses(value)
         THEN IF ExceedsLong(value) THEN "long" ELSE "int"
    ELSE "string"

BoolWords == {<<"t","r","u","e">>, <<"f","a","l","s","e">>, <<"y","e","s">>,
              <<"n","o">>, <<"l","i","g","h","t">>, <<"d","a","r","k">>}
\* RealmTypeInference.infer_shadow_type
InferShadowType(value) ==
    IF Lower(value) \in BoolWords THEN "bool"
    ELSE IF AllBinary(value) THEN "binary"
    ELSE "bool"

\* SpiritRealm._infer_type
InferType(raw_value, realm) ==
    CASE realm = "mortal" -> InferMortalType(raw_value)
      [] realm = "spirit" -> InferSpiritType(raw_value)
      [] realm = "shadow" -> InferShadowType(raw_value)
      [] OTHER -> realm
(***************************************************************************)
(* Execution engine: the per-type dispatch of MysticalExecutor.            *)
(* An operation returns a value or raises; every exception it raises is an *)
(* Exception, and exc names its kind:                                      *)
(*   DivisionByZero     ValueError("Cannot divide by zero ...")            *)
(*   CoercionError      ValueError / TypeError of float(operand)           *)
(*   ZeroDivisionError  zero raised to a negative power                    *)
(*   UnknownOperation   ValueError("Unknown mystical operation ...")       *)
(*   MissingOperand     ValueError("Cannot manifest ...")                  *)
(*   Untracked          no exception: a result outside the tracked floats  *)
(***************************************************************************)
\* isinstance(x, (int, float)); bool is a subclass of int
IsNum(x) == x.t \in {"int", "float", "bool"}
\* isinstance(x, int)
IsInt(x) == x.t \in {"int", "bool"}
IntVal(x) == IF x.t = "bool" THEN (IF x.v THEN 1 ELSE 0) ELSE x.v
\* a number as the fraction <<n, d>>
Rat(x) == IF x.t = "float" THEN x.v ELSE <<IntVal(x), 1>>
IsZero(x) == Rat(x)[1] = 0

\* bool(x)
Truthy(x) ==
    CASE x.t = "bool" -> x.v
      [] x.t \in {"int", "float"} -> ~IsZero(x)
      [] x.t \in {"str", "list", "dict"} -> x.v # <<>>
      [] x.t = "NoneType" -> FALSE
      [] OTHER -> TRUE

\* left + right, left - right, left * right of two numbers: int when both are
\* int (or bool), float otherwise
NumAdd(l, r) ==
    IF IsInt(l) /\ IsInt(r) THEN MkInt(IntVal(l) + IntVal(r))
    ELSE MkFloat(Rat(l)[1] * Rat(r)[2] + Rat(r)[1] * Rat(l)[2], Rat(l)[2] * Rat(r)[2])
NumSub(l, r) ==
    IF IsInt(l) /\ IsInt(r) THEN MkInt(IntVal(l) - IntVal(r))
    ELSE MkFloat(Rat(l)[1] * Rat(r)[2] - Rat(r)[1] * Rat(l)[2], Rat(l)[2] * Rat(r)[2])
NumMul(l, r) ==
    IF IsInt(l) /\ IsInt(r) THEN MkInt(IntVal(l) * IntVal(r))
    ELSE MkFloat(Rat(l)[1] * Rat(r)[1], Rat(l)[2] * Rat(r)[2])
\* left / right of two numbers, right # 0: always a float
NumDiv(l, r) == MkFloat(Rat(l)[1] * Rat(r)[2], Rat(l)[2] * Rat(r)[1])

\* left ** right of two numbers
NumPow(l, r) ==
    LET b == Rat(l)
        e == Rat(r)
        k == Abs(e[1])
    IN  IF e[2] = 1
        THEN IF e[1] >= 0
             THEN IF IsInt(l) /\ IsInt(r) THEN Returned(MkInt(Pow(b[1], k)))
                  ELSE Returned(MkFloat(Pow(b[1], k), Pow(b[2], k)))
             ELSE IF b[1] = 0 THEN Raised("ZeroDivisionError")
                  ELSE Returned(MkFloat(Pow(b[2], k), Pow(b[1], k)))
        ELSE IF b[1] = 0
             THEN IF e[1] < 0 THEN Raised("ZeroDivisionError")
                  ELSE Returned(MkFloat(0, 1))
        ELSE IF b = <<1, 1>> THEN Returned(MkFloat(1, 1))
        ELSE Raised("Untracked")

\* float(x): a number converts, text is parsed, any other value is a TypeError
PyFloat(x) ==
    IF IsNum(x) THEN Returned(MkFloat(Rat(x)[1], Rat(x)[2]))
    ELSE IF x.t = "str" /\ FloatParses(x.v) THEN Returned(FloatOfText(x.v))
    ELSE Raised("CoercionError")

RECURSIVE Replace(_, _)
\* left.replace(right, ""): every occurrence of right removed, left to right
Replace(s, old) ==
    IF old = <<>> \/ Len(s) < Len(old) THEN s
    ELSE IF SubSeq(s, 1, Len(old)) = old
         THEN Replace(SubSeq(s, Len(old) + 1, Len(s)), old)
    ELSE <<Head(s)>> \o Replace(Tail(s), old)

RECURSIVE Repeat(_, _)
\* s * n of a text or a list
Repeat(s, n) == IF n <= 0 THEN <<>> ELSE s \o Repeat(s, n - 1)

\* left + right where no rule of _perform_union applies: no such pair of the
\* modelled variants defines addition (TypeError)
NativeAdd(left, right) == Raised("Exception")

\* a variant whose last resort is float() of both operands, not their texts
PerformUnionStrict(left, right) ==
    IF left.t = "str" \/ right.t = "str"
    THEN Returned(MkStr(Str(left) \o Str(right)))
    ELSE IF IsNum(left) /\ IsNum(right) THEN Returned(NumAdd(left, right))
    ELSE IF left.t = "bool" \/ right.t = "bool"
    THEN Returned(IF Truthy(left) THEN left ELSE right)
    ELSE IF left.t = "list" /\ right.t = "list"
    THEN Returned(MkList(left.v \o right.v))
    ELSE IF ~PyFloat(left).ok THEN PyFloat(left)
    ELSE IF ~PyFloat(right).ok THEN PyFloat(right)
    ELSE Returned(NumAdd(PyFloat(left).val, PyFloat(right).val))

\* MysticalExecutor._perform_union
PerformUnion(left, right) ==
    IF left.t = "str" \/ right.t = "str"
    THEN Returned(MkStr(Str(left) \o Str(right)))
    ELSE IF IsNum(left) /\ IsNum(right) THEN Returned(NumAdd(left, right))
    ELSE IF left.t = "bool" \/ right.t = "bool"
    THEN Returned(IF Truthy(left) THEN left ELSE right)
    ELSE IF left.t = "list" /\ right.t = "list"
    THEN Returned(MkList(left.v \o right.v))
    ELSE IF NativeAdd(left, right).ok THEN NativeAdd(left, right)
    ELSE Returned(MkStr(Str(left) \o Str(right)))

\* MysticalExecutor._perform_difference
PerformDifference(left, right) ==
    IF IsNum(left) /\ IsNum(right) THEN Returned(NumSub(left, right))
    ELSE IF left.t = "bool" /\ right.t = "bool"
    THEN Returned(MkBool(left.v /\ ~right.v))
    ELSE IF left.t = "str" /\ right.t = "str"
    THEN Returned(MkStr(Replace(left.v, right.v)))
    ELSE IF ~PyFloat(left).ok THEN PyFloat(left)
    ELSE IF ~PyFloat(right).ok THEN PyFloat(right)
    ELSE Returned(NumSub(PyFloat(left).val, PyFloat(right).val))

\* MysticalExecutor._perform_fusion
PerformFusion(left, right) ==
    IF IsNum(left) /\ IsNum(right) THEN Returned(NumMul(left, right))
    ELSE IF left.t = "str" /\ IsInt(right)
    THEN Returned(MkStr(Repeat(left.v, IntVal(right))))
    ELSE IF left.t = "bool" /\ right.t = "bool"
    THEN Returned(MkBool(left.v /\ right.v))
    ELSE IF left.t = "list" /\ IsInt(right)
    THEN Returned(MkList(Repeat(left.v, IntVal(right))))
    ELSE IF ~PyFloat(left).ok THEN PyFloat(left)
    ELSE IF ~PyFloat(right).ok THEN PyFloat(right)
    ELSE Returned(NumMul(PyFloat(left).val, PyFloat(right).val))

\* a variant that coerces the left operand before it looks at the divisor
PerformDivisionLeftFirst(left, right) ==
    IF IsNum(left) /\ IsNum(right)
    THEN IF IsZero(right) THEN Raised("DivisionByZero")
         ELSE Returned(NumDiv(left, right))
    ELSE IF ~PyFloat(left).ok THEN PyFloat(left)
    ELSE IF ~PyFloat(right).ok THEN PyFloat(right)
    ELSE IF IsZero(PyFloat(right).val) THEN Raised("DivisionByZero")
    ELSE Returned(NumDiv(PyFloat(left).val, PyFloat(right).val))

\* MysticalExecutor._perform_division
PerformDivision(left, right) ==
    IF IsNum(left) /\ IsNum(right)
    THEN IF IsZero(right) THEN Raised("DivisionByZero")
         ELSE Returned(NumDiv(left, right))
    ELSE IF ~PyFloat(right).ok THEN PyFloat(right)
    ELSE IF IsZero(PyFloat(right).val) THEN Raised("DivisionByZero")
    ELSE IF ~PyFloat(left).ok THEN PyFloat(left)
    ELSE Returned(NumDiv(PyFloat(left).val, PyFloat(right).val))

\* MysticalExecutor._perform_power
PerformPower(left, right) ==
    IF IsNum(left) /\ IsNum(right) THEN NumPow(left, right)
    ELSE IF ~PyFloat(left).ok THEN PyFloat(left)
    ELSE IF ~PyFloat(right).ok THEN PyFloat(right)
    ELSE NumPow(PyFloat(left).val, PyFloat(right).val)

\* MysticalExecutor._perform_essence
PerformEssence(left) == Returned(left)

\* OperationType: the members' values; the engine dispatches on the first six
Operations == {"union", "difference", "fusion", "division", "power", "essence",
               "greater_than"}

\* the try block of MysticalExecutor.manifest_union: the dispatch on operation
Dispatch(operation, left, right) ==
    CASE operation = "union" -> PerformUnion(left, right)
      [] operation = "difference" -> PerformDifference(left, right)
      [] operation = "fusion" -> PerformFusion(left, right)
      [] operation = "division" -> PerformDivision(left, right)
      [] operation = "power" -> PerformPower(left, right)
      [] operation = "essence" -> PerformEssence(left)
      [] OTHER -> Raised("UnknownOperation")

\* a variant that reports a missing operand only when both slots are empty
OperandsMissingBoth(operation, ce, wf) ==
    IF operation = "essence" THEN ce = None
    ELSE ce = None /\ wf = None

\* the operand check of MysticalExecutor.manifest_union: the `is None` tests
\* that precede its try block
OperandsMissing(operation, ce, wf) ==
    IF operation = "essence" THEN ce = None
    ELSE ce = None \/ wf = None

\* the slots MysticalExecutor.manifest_union leaves behind: it clears them on
\* the success path only
SlotsAfter(res, ce, wf) ==
    IF res.ok THEN [ce |-> None, wf |-> None] ELSE [ce |-> ce, wf |-> wf]

\* MysticalExecutor.manifest_union on the slots (ce, wf): its outcome and the
\* slots afterwards
ManifestUnion(operation, ce, wf) ==
    LET res == IF OperandsMissing(operation, ce, wf) THEN Raised("MissingOperand")
               ELSE Dispatch(operation, ce, wf)
    IN  [res |-> res, slots |-> SlotsAfter(res, ce, wf)]

\* the outcome is one the model tracks (every float in it is exact)
RECURSIVE Tracked(_)
Tracked(x) ==
    CASE x.t = "float" -> FloatExact(x)
      [] x.t = "list" -> \A i \in 1..Len(x.v) : Tracked(x.v[i])
      [] OTHER -> TRUE
TrackedResult(res) == res.exc # "Untracked" /\ (res.ok => Tracked(res.val))
(***************************************************************************)
(* State.                                                                  *)
(***************************************************************************)
VARIABLES
    \* SpiritRealm: the three dicts, and the insertion order of their keys
    spirits, spirit_realms, spirit_types, spirit_keys,
    \* MysticalExecutor: the two accumulator slots
    channeled_essence, woven_force,
    \* SpellInterpreter: presentation mode, the run and the statement loop
    mystical_mode, status, pc, stmt, invoking, error,
    \* what the presentation sink (standard output) received: the latest
    \* notification, how many there were, the lifecycle notifications in
    \* order, and the (name, value, target) handed over when the latest
    \* notification is that of a Speak
    sink,
    \* observation of the calls made, for stating properties:
    \*   staged      channel / weave was called since the last evaluate call
    \*   ret         the latest call of the API, its arguments and its outcome
    \*   before      the Environment as the statement in progress (or the
    \*               statement that failed) found it
    \*   introduced  the names whose summon or bind has returned
    \*   written     per name, the value and realm its latest summon or bind stored
    staged, ret, before, introduced, written

env_vars == <<spirits, spirit_realms, spirit_types, spirit_keys>>
engine_vars == <<channeled_essence, woven_force>>
run_vars == <<mystical_mode, status, pc, stmt, invoking, error, sink>>
obs_vars == <<staged, ret, before, introduced, written>>
vars == <<spirits, spirit_realms, spirit_types, spirit_keys,
          channeled_essence, woven_force,
          mystical_mode, status, pc, stmt, invoking, error, sink,
          staged, ret, before, introduced, written>>

\* a dict as a function: d[k] = x
Store(d, k, x) == [n \in (DOMAIN d) \cup {k} |-> IF n = k THEN x ELSE d[n]]
\* the key order of a dict after d[k] = x: a new key goes last
StoreKey(keys, k) ==
    IF \E i \in 1..Len(keys) : keys[i] = k THEN keys ELSE Append(keys, k)
EmptyDict == [n \in {} |-> None]

NoCall == [call |-> "none", name |-> "", op |-> "", ce |-> None, wf |-> None,
           staged |-> [left |-> FALSE, right |-> FALSE],
           res |-> Returned(None), realm |-> "", raw |-> <<>>, report |-> <<>>]
NoEnv == [live |-> FALSE, spirits |-> EmptyDict, spirit_realms |-> EmptyDict,
          spirit_types |-> EmptyDict, spirit_keys |-> <<>>]
EnvNow == [live |-> TRUE, spirits |-> spirits, spirit_realms |-> spirit_realms,
           spirit_types |-> spirit_types, spirit_keys |-> spirit_keys]
NoStmt == [tag |-> "none", variables |-> <<>>, realm |-> "", variable |-> "",
           operation |-> "", operands |-> <<>>, result_variable |-> "",
           target |-> <<>>]
NoInvoke == [active |-> FALSE, variables |-> <<>>, realm |-> "", done |-> <<>>]
NoEvent == [kind |-> "none", name |-> "", text |-> <<>>, extra |-> <<>>]

\* SpiritRealm.__init__, MysticalExecutor.__init__, SpellInterpreter.__init__
InitObjects ==
    /\ spirits = EmptyDict
    /\ spirit_realms = EmptyDict
    /\ spirit_types = EmptyDict
    /\ spirit_keys = <<>>
    /\ channeled_essence = None
    /\ woven_force = None
    /\ status = "idle"
    /\ pc = 0
    /\ stmt = NoStmt
    /\ invoking = NoInvoke
    /\ error = "none"
    /\ sink = [last |-> NoEvent, count |-> 0, lifecycle |-> <<>>, spoken |-> <<>>]
    /\ staged = [left |-> FALSE, right |-> FALSE]
    /\ ret = NoCall
    /\ before = NoEnv
    /\ introduced = {}
    /\ written = EmptyDict

(***************************************************************************)
(* The engine driven through its own interface: channel_essence,           *)
(* weave_force and manifest_union called in any order with any values.     *)
(***************************************************************************)
\* the values handed to channel_essence and weave_force: every variant a
\* summon can store
EngineValues ==
    { None, MkInt(0), MkInt(3), MkInt(-2), MkBool(TRUE), MkBool(FALSE),
      MkFloat(0, 1), MkFloat(3, 2),
      MkStr(<<"0">>), MkStr(<<"3">>), MkStr(<<"a","b">>), MkStr(<<>>),
      MkStr(<<"0",".","0">>),
      MkList(<<>>), MkList(<<MkStr(<<"a">>)>>),
      MkDict(<<>>), MkDict(<<<<MkStr(<<"v","a","l","u","e">>), MkStr(<<"3">>)>>>>),
      MkDatetime(<<"2","0","2","0","-","0","1","-","0","1">>) }

\* a variant that empties the right slot when it fills the left one
ChannelEssenceAlone(value) ==
    /\ channeled_essence' = value
    /\ staged' = [left |-> TRUE, right |-> FALSE]
    /\ ret' = [NoCall EXCEPT !.call = "channel_essence", !.ce = value]
    /\ woven_force' = None

\* MysticalExecutor.channel_essence
ChannelEssence(value) ==
    /\ channeled_essence' = value
    /\ staged' = [staged EXCEPT !.left = TRUE]
    /\ ret' = [NoCall EXCEPT !.call = "channel_essence", !.ce = value]
    /\ UNCHANGED woven_force

\* MysticalExecutor.weave_force
WeaveForce(value) ==
    /\ woven_force' = value
    /\ staged' = [staged EXCEPT !.right = TRUE]
    /\ ret' = [NoCall EXCEPT !.call = "weave_force", !.wf = value]
    /\ UNCHANGED channeled_essence

\* MysticalExecutor.manifest_union, called on the engine's current slots
Evaluate(operation) ==
    LET out == ManifestUnion(operation, channeled_essence, woven_force)
    IN  /\ TrackedResult(out.res)
        /\ channeled_essence' = out.slots.ce
        /\ woven_force' = out.slots.wf
        /\ staged' = [left |-> FALSE, right |-> FALSE]
        /\ ret' = [NoCall EXCEPT !.call = "manifest_union", !.op = operation,
                                 !.ce = channeled_essence, !.wf = woven_force,
                                 !.staged = staged, !.res = out.res]

EngineChannel ==
    \E value \in EngineValues :
        ChannelEssence(value) /\ UNCHANGED <<env_vars, run_vars, before, introduced, written>>
EngineWeave ==
    \E value \in EngineValues :
        WeaveForce(value) /\ UNCHANGED <<env_vars, run_vars, before, introduced, written>>
EngineManifest ==
    \E operation \in Operations :
        Evaluate(operation) /\ UNCHANGED <<env_vars, run_vars, before, introduced, written>>

InitEngine == InitObjects /\ mystical_mode = TRUE
NextEngine == EngineChannel \/ EngineWeave \/ EngineManifest
SpecEngine == InitEngine /\ [][NextEngine]_vars
(***************************************************************************)
(* Environment: the operations of SpiritRealm on the three dicts.          *)
(***************************************************************************)
\* SpiritRealm.summon_spirit: the conversion comes first, so a conversion that
\* raises leaves the dicts as they were
SummonSpirit(name, raw_value, realm) ==
    LET typed_value == ConvertByRealm(raw_value, realm)
    IN  IF typed_value.ok
        THEN /\ spirits' = Store(spirits, name, typed_value.val)
             /\ spirit_realms' = Store(spirit_realms, name, realm)
             /\ spirit_types' = Store(spirit_types, name, InferType(raw_value, realm))
             /\ spirit_keys' = StoreKey(spirit_keys, name)
             /\ written' = Store(written, name, [value |-> typed_value.val, realm |-> realm])
        ELSE UNCHANGED <<env_vars, written>>
\* whether summon_spirit returns or raises, and what it raises
SummonOutcome(raw_value, realm) ==
    LET typed_value == ConvertByRealm(raw_value, realm)
    IN  IF typed_value.ok THEN Returned(None) ELSE Raised(typed_value.exc)

\* SpiritRealm.bind_manifestation
BindManifestation(name, value, realm) ==
    /\ spirits' = Store(spirits, name, value)
    /\ spirit_realms' = Store(spirit_realms, name, realm)
    /\ spirit_types' = Store(spirit_types, name, value.t)
    /\ spirit_keys' = StoreKey(spirit_keys, name)
    /\ written' = Store(written, name, [value |-> value, realm |-> realm])

\* a variant that answers an unbound name with the null value, as dict.get does
GetSpiritEssenceOrNone(name) ==
    IF name \notin DOMAIN spirits THEN Returned(None)
    ELSE Returned(spirits[name])

\* SpiritRealm.get_spirit_essence
GetSpiritEssence(name) ==
    IF name \notin DOMAIN spirits THEN Raised("UnboundVariable")
    ELSE Returned(spirits[name])

\* SpiritRealm.get_spirit_realm: the realm, or "" with ok FALSE when it raises
GetSpiritRealm(name) ==
    IF name \notin DOMAIN spirit_realms
    THEN [ok |-> FALSE, realm |-> "", exc |-> "UnboundVariable"]
    ELSE [ok |-> TRUE, realm |-> spirit_realms[name], exc |-> "none"]

\* SpiritRealm.has_spirit
HasSpirit(name) == name \in DOMAIN spirits

\* SpiritRealm.get_realm_status on the dicts given: one entry per line of the
\* report, in the key order of spirits, the value as the f-string renders it
RealmStatus(e) ==
    [i \in 1..Len(e.spirit_keys) |->
        [name |-> e.spirit_keys[i],
         value |-> Str(e.spirits[e.spirit_keys[i]]),
         type |-> e.spirit_types[e.spirit_keys[i]],
         realm |-> e.spirit_realms[e.spirit_keys[i]]]]
GetRealmStatus == RealmStatus(EnvNow)

(***************************************************************************)
(* Presentation: what MysticalIO and the interpreter print.                *)
(***************************************************************************)
TheVoid == <<"t","h","e"," ","v","o","i","d">>
TheMortalEyes == <<"t","h","e"," ","m","o","r","t","a","l"," ","e","y","e","s">>
TheSacredScroll == <<"t","h","e"," ","s","a","c","r","e","d"," ","s","c","r","o","l","l">>
\* MysticalIO._get_target_description
GetTargetDescription(target) ==
    CASE target = TheVoid ->
            <<"t","h","e"," ","i","n","f","i","n","i","t","e"," ","v","o",
              "i","d"," ","t","h","a","t"," ","e","c","h","o","e","s"," ",
              "t","h","r","o","u","g","h"," ","e","t","e","r","n","i","t",
              "y">>
      [] target = TheMortalEyes ->
            <<"t","h","o","s","e"," ","w","h","o"," ","w","a","l","k"," ",
              "t","h","e"," ","e","a","r","t","h","l","y"," ","p","l","a",
              "n","e">>
      [] target = TheSacredScroll ->
            <<"t","h","e"," ","a","n","c","i","e","n","t"," ","p","a","r",
              "c","h","m","e","n","t","s"," ","o","f"," ","k","n","o","w",
              "l","e","d","g","e">>
      [] OTHER -> target

Event(kind, name, text, extra) ==
    [kind |-> kind, name |-> name, text |-> text, extra |-> extra]
\* one notification printed
Emit(e) ==
    sink' = [sink EXCEPT !.last = e, !.count = sink.count + 1, !.spoken = <<>>,
                         !.lifecycle =
                            IF e.kind \in {"started", "succeeded", "failed",
                                           "execution_error"}
                            THEN Append(sink.lifecycle, e) ELSE sink.lifecycle]
\* a call of a MysticalIO announce method: it prints in mystical mode only
Announce(e) == IF mystical_mode THEN Emit(e) ELSE UNCHANGED sink
(***************************************************************************)
(* Interpreter: SpellInterpreter runs one program. The program is the      *)
(* caller's input: each turn of the statement loop takes whatever          *)
(* statement stands next, and the program may end after any statement.     *)
(***************************************************************************)
Names == {"x", "y", "z"}
\* the variables lists of the Invoke statements
InvokeLists == {<<"x">>, <<"x", "y">>}
\* the operands lists of the Manifest statements
OperandLists == {<<>>, <<"x">>, <<"x", "y">>}
ResultNames == {"x", "z"}
\* the operations of the Manifest statements
ManifestOperations == {"union", "difference", "division", "essence"}
Targets == {TheVoid, <<"v","o","i","d">>}
\* the realms of the Invoke statements
InvokeRealms == {"mortal", "spirit", "shadow", "void", "astral"}
\* the lines the input provider may hand to an Invoke of the realm
InputTexts(realm) ==
    CASE realm = "mortal" -> {<<"3">>, <<"0">>, <<"a","b">>}
      [] realm = "spirit" -> {<<"1",".","5">>}
      [] realm = "shadow" -> {<<"1">>}
      [] realm = "void" -> {<<"v","o","i","d">>}
      [] OTHER -> {<<"3">>, <<"[","e","x","i","t","(",")","]">>}

InvokeNode(variables, realm) ==
    [NoStmt EXCEPT !.tag = "invoke", !.variables = variables, !.realm = realm]
ChannelNode(variable) == [NoStmt EXCEPT !.tag = "channel", !.variable = variable]
WeaveNode(variable) == [NoStmt EXCEPT !.tag = "weave", !.variable = variable]
ManifestNode(operation, operands, result_variable) ==
    [NoStmt EXCEPT !.tag = "manifest", !.operation = operation,
                   !.operands = operands, !.result_variable = result_variable]
SpeakNode(variable, target) ==
    [NoStmt EXCEPT !.tag = "speak", !.variable = variable, !.target = target]
\* ConditionalNode and WhileLoopNode: statements execute_statement has no case for
OtherNode(tag) == [NoStmt EXCEPT !.tag = tag]

\* a variant that looks for a shadow operand before a spirit operand
InferResultRealmShadowFirst(operands) ==
    LET realms == {GetSpiritRealm(operands[i]).realm :
                      i \in {j \in 1..Len(operands) : HasSpirit(operands[j])}}
    IN  IF realms = {} THEN "mortal"
        ELSE IF "shadow" \in realms THEN "shadow"
        ELSE IF "spirit" \in realms THEN "spirit"
        ELSE "mortal"

\* SpellInterpreter._infer_result_realm
InferResultRealm(operands) ==
    LET realms == {GetSpiritRealm(operands[i]).realm :
                      i \in {j \in 1..Len(operands) : HasSpirit(operands[j])}}
    IN  IF realms = {} THEN "mortal"
        ELSE IF "spirit" \in realms THEN "spirit"
        ELSE IF "shadow" \in realms THEN "shadow"
        ELSE "mortal"

\* a variant whose loop goes on to the next statement after one has raised
InLoopAfterFailure(st) == st \in {"running", "failed"}

\* the for loop of execute_spell_program is inside its try block: it takes a
\* next statement only while no statement has raised
InLoop(st) == st = "running"
\* the loop is about to take the next statement
LoopRuns == InLoop(status) /\ ~invoking.active /\ pc < MaxSteps

\* a variant that reports the error and swallows it: the run goes on
FailAndContinue(kind) ==
    /\ status' = status
    /\ error' = kind
    /\ Emit(Event(IF mystical_mode THEN "failed" ELSE "execution_error", "", <<>>, kind))

\* the except clause of execute_spell_program: report the failure and re-raise
Fail(kind) ==
    /\ status' = "failed"
    /\ error' = kind
    /\ Emit(Event(IF mystical_mode THEN "failed" ELSE "execution_error", "", <<>>, kind))

\* the statement taken completes without raising
Proceed == UNCHANGED <<status, error>>

\* SpellInterpreter.execute_spell_program: entry, up to the loop
BeginProgram ==
    /\ status = "idle"
    /\ status' = "running"
    /\ Announce(Event("started", "", <<>>, ""))
    /\ UNCHANGED <<env_vars, engine_vars, mystical_mode, pc, stmt, invoking, error,
                   obs_vars>>

\* SpellInterpreter._execute_invocation: entry, up to the first input()
Invocation(variables, realm) ==
    /\ LoopRuns
    /\ pc' = pc + 1
    /\ stmt' = InvokeNode(variables, realm)
    /\ invoking' = [active |-> TRUE, variables |-> variables, realm |-> realm,
                    done |-> <<>>]
    /\ before' = EnvNow
    /\ UNCHANGED <<env_vars, engine_vars, mystical_mode, status, error, sink,
                   staged, ret, introduced, written>>

\* the loop takes an Invoke statement
ExecInvoke ==
    \E variables \in InvokeLists, realm \in InvokeRealms :
        Invocation(variables, realm)

\* a variant that walks the names of the Invoke from the last to the first
ReadingFromEnd(raw_value) ==
    LET variable == invoking.variables[Len(invoking.variables)]
        rest == SubSeq(invoking.variables, 1, Len(invoking.variables) - 1)
        out == SummonOutcome(raw_value, invoking.realm)
    IN  /\ InLoop(status) /\ invoking.active
        /\ SummonSpirit(variable, raw_value, invoking.realm)
        /\ introduced' = introduced \cup {variable}
        /\ ret' = [NoCall EXCEPT !.call = "summon_spirit", !.name = variable,
                                 !.realm = invoking.realm, !.raw = raw_value,
                                 !.res = out]
        /\ IF out.ok
           THEN /\ Announce(Event("summoned", variable, <<>>, invoking.realm))
                /\ invoking' = IF rest = <<>> THEN NoInvoke
                               ELSE [invoking EXCEPT !.variables = rest,
                                         !.done = Append(invoking.done, variable)]
                /\ before' = IF rest = <<>> THEN NoEnv ELSE before
                /\ Proceed
           ELSE /\ status' = "exited"
                /\ error' = out.exc
                /\ invoking' = [invoking EXCEPT !.active = FALSE]
                /\ UNCHANGED <<sink, before>>
        /\ UNCHANGED <<engine_vars, mystical_mode, pc, stmt, staged>>

\* one turn of the loop of _execute_invocation: input() returns a line, the
\* variable is summoned and announced. A SystemExit out of summon_spirit is no
\* Exception: it passes the except clause and ends the process.
Reading(raw_value) ==
    LET variable == Head(invoking.variables)
        rest == Tail(invoking.variables)
        out == SummonOutcome(raw_value, invoking.realm)
    IN  /\ InLoop(status) /\ invoking.active
        /\ SummonSpirit(variable, raw_value, invoking.realm)
        /\ introduced' = introduced \cup {variable}
        /\ ret' = [NoCall EXCEPT !.call = "summon_spirit", !.name = variable,
                                 !.realm = invoking.realm, !.raw = raw_value,
                                 !.res = out]
        /\ IF out.ok
           THEN /\ Announce(Event("summoned", variable, <<>>, invoking.realm))
                /\ invoking' = IF rest = <<>> THEN NoInvoke
                               ELSE [invoking EXCEPT !.variables = rest,
                                         !.done = Append(invoking.done, variable)]
                /\ before' = IF rest = <<>> THEN NoEnv ELSE before
                /\ Proceed
           ELSE /\ status' = "exited"
                /\ error' = out.exc
                /\ invoking' = [invoking EXCEPT !.active = FALSE]
                /\ UNCHANGED <<sink, before>>
        /\ UNCHANGED <<engine_vars, mystical_mode, pc, stmt, staged>>

\* the input provider hands over a line
InvokeRead ==
    \E raw_value \in InputTexts(invoking.realm) :
        Reading(raw_value)

\* one turn of the loop of _execute_invocation: input() raises (end of input)
InvokeReadFails ==
    /\ InLoop(status) /\ invoking.active
    /\ Fail("InputFailure")
    /\ invoking' = [invoking EXCEPT !.active = FALSE]
    /\ UNCHANGED <<env_vars, engine_vars, mystical_mode, pc, stmt, obs_vars>>

\* SpellInterpreter._execute_channeling
Channeling(variable) ==
    LET value == GetSpiritEssence(variable)
    IN  /\ LoopRuns
        /\ pc' = pc + 1
        /\ stmt' = ChannelNode(variable)
        /\ IF value.ok
           THEN /\ ChannelEssence(value.val)
                /\ Announce(Event("channeled", variable, <<>>, ""))
                /\ before' = NoEnv
                /\ Proceed
           ELSE /\ Fail(value.exc)
                /\ ret' = [NoCall EXCEPT !.call = "get_spirit_essence",
                                         !.name = variable, !.res = value]
                /\ before' = EnvNow
                /\ UNCHANGED <<engine_vars, staged>>
        /\ UNCHANGED <<env_vars, mystical_mode, invoking, introduced, written>>

\* the loop takes a Channel statement
ExecChannel ==
    \E variable \in Names :
        Channeling(variable)

\* SpellInterpreter._execute_weaving
Weaving(variable) ==
    LET value == GetSpiritEssence(variable)
    IN  /\ LoopRuns
        /\ pc' = pc + 1
        /\ stmt' = WeaveNode(variable)
        /\ IF value.ok
           THEN /\ WeaveForce(value.val)
                /\ Announce(Event("woven", variable, <<>>, ""))
                /\ before' = NoEnv
                /\ Proceed
           ELSE /\ Fail(value.exc)
                /\ ret' = [NoCall EXCEPT !.call = "get_spirit_essence",
                                         !.name = variable, !.res = value]
                /\ before' = EnvNow
                /\ UNCHANGED <<engine_vars, staged>>
        /\ UNCHANGED <<env_vars, mystical_mode, invoking, introduced, written>>

\* the loop takes a Weave statement
ExecWeave ==
    \E variable \in Names :
        Weaving(variable)

\* a variant that binds the result name whether or not manifest_union returned
ManifestEffectAlways(res, operands, result_variable) ==
    BindManifestation(result_variable, res.val, InferResultRealm(operands))

\* SpellInterpreter._execute_manifestation, after manifest_union: the realm is
\* inferred and the result bound only when manifest_union returned
ManifestEffect(res, operands, result_variable) ==
    IF res.ok
    THEN BindManifestation(result_variable, res.val, InferResultRealm(operands))
    ELSE UNCHANGED <<env_vars, written>>

\* SpellInterpreter._execute_manifestation
Manifestation(operation, operands, result_variable) ==
    LET out == ManifestUnion(operation, channeled_essence, woven_force)
    IN  /\ LoopRuns
        /\ pc' = pc + 1
        /\ stmt' = ManifestNode(operation, operands, result_variable)
        /\ Evaluate(operation)
        /\ ManifestEffect(out.res, operands, result_variable)
        /\ IF out.res.ok
           THEN /\ Announce(Event("manifest", result_variable,
                                  Str(out.res.val), operation))
                /\ introduced' = introduced \cup {result_variable}
                /\ before' = NoEnv
                /\ Proceed
           ELSE /\ Fail(out.res.exc)
                /\ before' = EnvNow
                /\ UNCHANGED introduced
        /\ UNCHANGED <<mystical_mode, invoking>>

\* the loop takes a Manifest statement
ExecManifest ==
    \E operation \in ManifestOperations, operands \in OperandLists,
       result_variable \in ResultNames :
        Manifestation(operation, operands, result_variable)

\* SpellInterpreter._execute_speaking: MysticalIO.speak_to_realm in mystical
\* mode, the interpreter's own print otherwise
ExecSpeak ==
    \E variable \in Names, target \in Targets :
        LET value == GetSpiritEssence(variable)
        IN  /\ LoopRuns
            /\ pc' = pc + 1
            /\ stmt' = SpeakNode(variable, target)
            /\ ret' = [NoCall EXCEPT !.call = "get_spirit_essence",
                                     !.name = variable, !.res = value]
            /\ IF value.ok
               THEN /\ sink' =
                         [sink EXCEPT
                            !.last = Event("speak", variable, Str(value.val),
                                           IF mystical_mode
                                           THEN GetTargetDescription(target)
                                           ELSE Replace(target, <<"t","h","e"," ">>)),
                            !.count = sink.count + 1,
                            !.spoken = <<variable, value.val,
                                         IF mystical_mode THEN target
                                         ELSE Replace(target, <<"t","h","e"," ">>)>>]
                    /\ before' = NoEnv
                    /\ Proceed
               ELSE /\ Fail(value.exc)
                    /\ before' = EnvNow
            /\ UNCHANGED <<env_vars, engine_vars, mystical_mode, invoking, staged,
                           introduced, written>>

\* SpellInterpreter.execute_statement: the else branch, for a statement that
\* is none of the five kinds
ExecUnknown ==
    \E tag \in {"conditional", "while"} :
        /\ LoopRuns
        /\ pc' = pc + 1
        /\ stmt' = OtherNode(tag)
        /\ Fail("UnknownStatement")
        /\ before' = EnvNow
        /\ UNCHANGED <<env_vars, engine_vars, mystical_mode, invoking, staged, ret,
                       introduced, written>>

\* SpellInterpreter.execute_spell_program: the loop has taken the last statement
Complete ==
    /\ InLoop(status) /\ ~invoking.active
    /\ status' = "succeeded"
    /\ Announce(Event("succeeded", "", <<>>, ""))
    /\ UNCHANGED <<env_vars, engine_vars, mystical_mode, pc, stmt, invoking, error,
                   obs_vars>>

Init == InitObjects /\ mystical_mode \in BOOLEAN
Next ==
    \/ BeginProgram
    \/ ExecInvoke
    \/ InvokeRead
    \/ InvokeReadFails
    \/ ExecChannel
    \/ ExecWeave
    \/ ExecManifest
    \/ ExecSpeak
    \/ ExecUnknown
    \/ Complete
Spec == Init /\ [][Next]_vars
(***************************************************************************)
(* The Environment driven through its own interface: summon_spirit,        *)
(* bind_manifestation, get_spirit_essence, get_spirit_realm and            *)
(* get_realm_status called in any order.                                   *)
(***************************************************************************)
\* the raw texts handed to summon_spirit
RawTexts ==
    { <<"3">>, <<"-","2">>, <<"0">>, <<"1">>, <<"1","0">>, <<>>,
      <<"a","b">>, <<"a">>, <<"T","R","U","E">>, <<"1",".","5">>, <<".">>,
      <<"v","o","i","d">>, <<"[","1","]">>, <<"[","x","]">>,
      <<"[","e","x","i","t","(",")","]">>, <<"a",",","b">>,
      <<"{","}">>, <<"{","x","}">>,
      <<"2","0","2","0","-","0","1","-","0","1">> }
SummonNames == {"x"}
EnvNames == {"x", "y"}
\* the computed results handed to bind_manifestation
BindValues == {MkInt(7), MkStr(<<"3","4">>)}
BindRealms == {"mortal", "spirit"}

EnvSummon ==
    \E name \in SummonNames, raw_value \in RawTexts, realm \in Realms :
        /\ status # "exited"
        /\ SummonSpirit(name, raw_value, realm)
        /\ introduced' = introduced \cup {name}
        /\ ret' = [NoCall EXCEPT !.call = "summon_spirit", !.name = name,
                                 !.realm = realm, !.raw = raw_value,
                                 !.res = SummonOutcome(raw_value, realm)]
        /\ status' = IF SummonOutcome(raw_value, realm).ok THEN status ELSE "exited"
        /\ UNCHANGED <<engine_vars, mystical_mode, pc, stmt, invoking, error, sink,
                       staged, before>>

EnvBind ==
    \E name \in EnvNames, value \in BindValues, realm \in BindRealms :
        /\ status # "exited"
        /\ BindManifestation(name, value, realm)
        /\ introduced' = introduced \cup {name}
        /\ ret' = [NoCall EXCEPT !.call = "bind_manifestation", !.name = name,
                                 !.realm = realm]
        /\ UNCHANGED <<engine_vars, run_vars, staged, before>>

EnvGet ==
    \E name \in EnvNames :
        /\ status # "exited"
        /\ ret' = [NoCall EXCEPT !.call = "get_spirit_essence", !.name = name,
                                 !.res = GetSpiritEssence(name)]
        /\ UNCHANGED <<env_vars, engine_vars, run_vars, staged, before, introduced,
                       written>>

EnvGetRealm ==
    \E name \in EnvNames :
        LET r == GetSpiritRealm(name)
        IN  /\ status # "exited"
            /\ ret' = [NoCall EXCEPT !.call = "get_spirit_realm", !.name = name,
                                     !.realm = r.realm,
                                     !.res = IF r.ok THEN Returned(None)
                                             ELSE Raised(r.exc)]
            /\ UNCHANGED <<env_vars, engine_vars, run_vars, staged, before,
                           introduced, written>>

EnvStatus ==
    /\ status # "exited"
    /\ ret' = [NoCall EXCEPT !.call = "get_realm_status", !.report = GetRealmStatus]
    /\ UNCHANGED <<env_vars, engine_vars, run_vars, staged, before, introduced,
                   written>>

\* a SystemExit raised by summon_spirit ends the process, as it does in a run of
\* the interpreter: no call of the API follows it
InitEnv == InitObjects /\ mystical_mode = TRUE
NextEnv == EnvSummon \/ EnvBind \/ EnvGet \/ EnvGetRealm \/ EnvStatus
SpecEnv == InitEnv /\ [][NextEnv]_vars

(***************************************************************************)
(* The interpreter on the sum program: Invoke x, y from MORTAL; Channel x; *)
(* Weave y; Manifest union of x, y as z, with decimal integers typed in.   *)
(***************************************************************************)
\* the lines typed in: str(n) of every integer of the range
SumTexts == {StrInt(n) : n \in -MaxOperand..MaxOperand}

InitSum == InitObjects /\ mystical_mode \in BOOLEAN
NextSum ==
    \/ BeginProgram
    \/ pc = 0 /\ Invocation(<<"x", "y">>, "mortal")
    \/ \E raw_value \in SumTexts : Reading(raw_value)
    \/ pc = 1 /\ Channeling("x")
    \/ pc = 2 /\ Weaving("y")
    \/ pc = 3 /\ Manifestation("union", <<"x", "y">>, "z")
    \/ pc = 4 /\ Complete
SpecSum == InitSum /\ [][NextSum]_vars

(***************************************************************************)
(* One program run by SpellInterpreter on every input and every second     *)
(* realm: Invoke x from MORTAL; Channel x; Invoke x from a realm;          *)
(* Manifest essence [x] as z. The value staged is the one x had under      *)
(* MORTAL.                                                                 *)
(***************************************************************************)
\* the input lines read by the two Invoke statements
ResummonTexts == {<<"3">>, <<"1",".","5">>, <<"1">>, <<"a","b">>}

NextResummon ==
    \/ BeginProgram
    \/ pc = 0 /\ Invocation(<<"x">>, "mortal")
    \/ \E raw_value \in ResummonTexts : Reading(raw_value)
    \/ pc = 1 /\ Channeling("x")
    \/ \E realm \in Realms : pc = 2 /\ Invocation(<<"x">>, realm)
    \/ pc = 3 /\ Manifestation("essence", <<"x">>, "z")
    \/ pc = 4 /\ Complete
SpecResummon == InitSum /\ [][NextResummon]_vars

\* ---------------------------------------------------------------------------
\* Properties of the engine (MysticalExecutor)
\* ---------------------------------------------------------------------------

\* C1: after every call of manifest_union, whatever the operation and whatever
\* was channelled or woven before it, both slots are empty, whether the call
\* returned a value or raised.
C1_SlotsEmptyAfterEvaluate ==
    ret.call = "manifest_union" => channeled_essence = None /\ woven_force = None

\* C2: for every operation other than essence, manifest_union raises the
\* missing-operand error whenever a slot is empty (only the left one filled,
\* only the right one filled, or neither), and produces no result.
C2_MissingOperand ==
    (/\ ret.call = "manifest_union"
     /\ ret.op # "essence"
     /\ ret.ce = None \/ ret.wf = None)
    => (~ret.res.ok /\ ret.res.exc = "MissingOperand" /\ ret.res.val = None)

\* C2, its case: a division was asked for with only the left slot filled, and a
\* union with only the right slot filled
C2_OnlyOneSlotFilled ==
    /\ ret.call = "manifest_union"
    /\ \/ ret.op = "division" /\ ret.ce # None /\ ret.wf = None
       \/ ret.op = "union" /\ ret.ce = None /\ ret.wf # None
    /\ ret.res.exc = "MissingOperand"

\* C3: after channel_essence(v), for every value v, the null value of the VOID
\* realm included, manifest_union("essence") returns exactly v whether or not
\* the right slot is filled; it raises the missing-operand error only when
\* nothing was channelled since the last manifest_union.
C3_IdentityReturnsChanneled ==
    (ret.call = "manifest_union" /\ ret.op = "essence")
    => IF ret.staged.left
       THEN ret.res.ok /\ ret.res.val = ret.ce
       ELSE ~ret.res.ok /\ ret.res.exc = "MissingOperand"

\* C4: for a division with both slots filled, whenever the right operand is
\* numerically zero (0, 0.0, or a value whose float() is zero, such as the text
\* "0"), manifest_union raises the division-by-zero error for every left
\* operand, those without a numeric reading included.
C4_DivisionByZero ==
    (/\ ret.call = "manifest_union"
     /\ ret.op = "division"
     /\ ret.ce # None /\ ret.wf # None
     /\ PyFloat(ret.wf).ok
     /\ IsZero(PyFloat(ret.wf).val))
    => (~ret.res.ok /\ ret.res.exc = "DivisionByZero")

\* C4, its case: the divisor is the text "0" and the left operand is a list,
\* which float() rejects
C4_ZeroTextUnderList ==
    /\ ret.call = "manifest_union"
    /\ ret.op = "division"
    /\ ret.ce.t = "list"
    /\ ret.wf = MkStr(<<"0">>)
    /\ ret.res.exc = "DivisionByZero"

\* ---------------------------------------------------------------------------
\* Properties of a run of the interpreter
\* ---------------------------------------------------------------------------

\* C5: a Manifest that succeeds binds its result name with realm spirit if any
\* of its operand names is bound with realm spirit when it runs, else shadow
\* if any is bound with realm shadow, else mortal (no operand names, unbound
\* names and operands of the other realms included).
C5_ResultRealm ==
    [][(stmt'.tag = "manifest" /\ pc' # pc /\ status' = "running")
       => LET names == {stmt'.operands[i] : i \in 1..Len(stmt'.operands)}
              realms == {spirit_realms[n] : n \in names \cap DOMAIN spirit_realms}
          IN  /\ stmt'.result_variable \in DOMAIN spirit_realms'
              /\ spirit_realms'[stmt'.result_variable] =
                    IF "spirit" \in realms THEN "spirit"
                    ELSE IF "shadow" \in realms THEN "shadow"
                    ELSE "mortal"]_vars

\* C5, its case: the operands x (spirit) and y (mortal) gave z the realm spirit
C5_SpiritOverMortal ==
    /\ stmt.tag = "manifest" /\ status = "running"
    /\ stmt.operands = <<"x", "y">> /\ stmt.result_variable = "z"
    /\ "y" \in DOMAIN spirit_realms
    /\ spirit_realms["x"] = "spirit" /\ spirit_realms["y"] = "mortal"
    /\ spirit_realms["z"] = "spirit"

\* C6, as stated: once a statement has failed, every binding that existed when
\* that statement began is still there with the same value, realm and type
\* label.
C6_BindingsAsBeforeFailure ==
    status = "failed"
    => \A n \in DOMAIN before.spirits :
          /\ n \in DOMAIN spirits
          /\ spirits[n] = before.spirits[n]
          /\ spirit_realms[n] = before.spirit_realms[n]
          /\ spirit_types[n] = before.spirit_types[n]

\* C6, amended: once a statement has failed nothing more is executed (no input
\* is read, no binding, slot or statement counter changes, nothing more is
\* announced), and every binding that existed when the failing statement began
\* is still there, with the same value, realm and type label unless the
\* failing statement is an Invoke that summoned that name again before the
\* read that failed.
C6_FailureStopsRun ==
    [][LET resummoned == IF stmt.tag = "invoke"
                         THEN {invoking.done[i] : i \in 1..Len(invoking.done)}
                         ELSE {}
           kept == \A n \in DOMAIN before.spirits :
                      /\ n \in DOMAIN spirits
                      /\ n \notin resummoned
                         => /\ spirits[n] = before.spirits[n]
                            /\ spirit_realms[n] = before.spirit_realms[n]
                            /\ spirit_types[n] = before.spirit_types[n]
       IN  /\ status \in {"failed", "exited"}
              => UNCHANGED <<env_vars, engine_vars, status, pc, stmt, invoking,
                             error, sink>>
           /\ status' \in {"failed", "exited"} => kept']_vars

\* C6, its case: an Invoke failed at a later read after it had summoned x
\* again, and x no longer holds what it held when the Invoke began
C6_FailedAfterResummon ==
    /\ status = "failed" /\ stmt.tag = "invoke"
    /\ invoking.done = <<"x">>
    /\ "x" \in DOMAIN before.spirits
    /\ spirits["x"] # before.spirits["x"]

\* C7: a Manifest whose manifest_union raises leaves the dicts of SpiritRealm
\* exactly as they were before the statement (the result name is neither
\* created nor overwritten), and get_realm_status afterwards reports exactly
\* the bindings that existed before it.
C7_FailedManifestKeepsEnv ==
    (status = "failed" /\ stmt.tag = "manifest")
    => /\ EnvNow = before
       /\ GetRealmStatus = RealmStatus(before)

\* C7, its case: a division by zero failed while x was bound, and the result
\* name z is still unbound
C7_DivisionFailedWithBindings ==
    /\ status = "failed" /\ stmt.tag = "manifest"
    /\ error = "DivisionByZero"
    /\ stmt.result_variable = "z"
    /\ DOMAIN spirits = {"x"}

\* C8: for every realm and every text, summon_spirit returns without raising
\* and leaves the name bound with the realm given; when the rule of the realm
\* fails, the value stored is the text itself.
C8_SummonAlwaysBinds ==
    ret.call = "summon_spirit"
    => /\ ret.res.ok
       /\ ret.name \in DOMAIN spirits
       /\ spirit_realms[ret.name] = ret.realm
       /\ ~ConvertRule(ret.raw, ret.realm).ok => spirits[ret.name] = MkStr(ret.raw)

\* C9: get_spirit_essence and get_spirit_realm raise the unbound-variable
\* error exactly when the name has no binding, return the value and the realm
\* that the latest summon_spirit or bind_manifestation of the name stored
\* otherwise, and leave the dicts of SpiritRealm as they were in either case.
C9_GetReadsLatestWrite ==
    [][/\ ret'.call \in {"get_spirit_essence", "get_spirit_realm"}
          => /\ UNCHANGED env_vars
             /\ ret'.res.ok <=> ret'.name \in DOMAIN written
             /\ ~ret'.res.ok => ret'.res.exc = "UnboundVariable"
       /\ (ret'.call = "get_spirit_essence" /\ ret'.res.ok)
          => ret'.res.val = written[ret'.name].value
       /\ (ret'.call = "get_spirit_realm" /\ ret'.res.ok)
          => ret'.realm = written[ret'.name].realm]_vars

\* C9, its case: x holds the value 7 of a bind_manifestation with realm spirit, and
\* get_spirit_realm answers with that realm
C9_RealmOfLaterWrite ==
    /\ ret.call = "get_spirit_realm" /\ ret.name = "x" /\ ret.res.ok
    /\ ret.realm = "spirit"
    /\ spirits["x"] = MkInt(7)

\* C10: in every state of a run the bound names are exactly the names an
\* executed Invoke summoned and the result names of the Manifests that
\* succeeded; the set of bound names only grows; and value, realm and type
\* label are defined for the same names.
C10_BoundNamesAreIntroduced ==
    [][/\ DOMAIN spirits' = introduced'
       /\ DOMAIN spirits \subseteq DOMAIN spirits'
       /\ DOMAIN spirit_realms' = DOMAIN spirits'
       /\ DOMAIN spirit_types' = DOMAIN spirits']_vars

\* C11: a run reports "started" before any statement executes and one terminal
\* event after the last statement executed: "succeeded" exactly when every
\* statement completed, else the failure with the message of the error that
\* is re-raised; in both presentation modes. Stated on what the sink has
\* received at each point of a run; the failure line "Execution error: ..." of
\* technical mode counts as the failure event.
C11_Lifecycle ==
    LET kinds == [i \in 1..Len(sink.lifecycle) |->
                     IF sink.lifecycle[i].kind = "execution_error" THEN "failed"
                     ELSE sink.lifecycle[i].kind]
    IN  /\ status = "running" => kinds = <<"started">>
        /\ status = "succeeded" => kinds = <<"started", "succeeded">>
        /\ status = "failed" => /\ kinds = <<"started", "failed">>
                                /\ sink.lifecycle[2].extra = error

\* C12: a Speak of a bound name hands exactly (name, current value of the
\* name, target) to the presentation sink, the target label unmodified, and
\* changes neither the dicts of SpiritRealm nor the slots; a Speak of an
\* unbound name fails with the unbound-variable error and hands nothing over.
C12_SpeakForwards ==
    [][(stmt'.tag = "speak" /\ pc' # pc)
       => /\ UNCHANGED <<env_vars, engine_vars>>
          /\ IF stmt'.variable \in DOMAIN spirits
             THEN /\ status' = "running"
                  /\ sink'.spoken = <<stmt'.variable, spirits[stmt'.variable],
                                      stmt'.target>>
             ELSE /\ status' = "failed" /\ error' = "UnboundVariable"
                  /\ sink'.last.kind # "speak"
                  /\ sink'.spoken = <<>>]_vars

\* C13: a statement that is none of Invoke, Channel, Weave, Manifest, Speak (a
\* Conditional or a WhileLoop) fails with the unknown-statement error and
\* aborts the run: nothing nested in it is executed (no input is read, the
\* sink receives the failure report only), the dicts of SpiritRealm and the
\* slots are unchanged by it, and no step follows it.
C13_UnknownStatementAborts ==
    [][/\ (stmt'.tag \in {"conditional", "while"} /\ pc' # pc)
          => /\ status' = "failed" /\ error' = "UnknownStatement"
             /\ UNCHANGED <<env_vars, engine_vars, invoking>>
             /\ sink'.count = sink.count + 1
             /\ sink'.last.kind \in {"failed", "execution_error"}
       /\ stmt.tag \in {"conditional", "while"}
          => UNCHANGED <<env_vars, engine_vars, status, pc, stmt, invoking, sink>>]_vars

\* C13, its case: a Conditional failed while x was bound and the left slot
\* was filled
C13_ConditionalAfterChannel ==
    /\ stmt.tag = "conditional" /\ status = "failed"
    /\ "x" \in DOMAIN spirits
    /\ channeled_essence # None

\* C14: for all integers a and b typed in as decimal text, the program
\* Invoke x, y from MORTAL; Channel x; Weave y; Manifest union of x, y as z
\* never fails and ends with z bound to the integer a + b in realm mortal,
\* x and y still bound to a and b.
C14_SumOfTwoInputs ==
    [][/\ ret'.call = "summon_spirit"
          => \E n \in -MaxOperand..MaxOperand :
                /\ StrInt(n) = ret'.raw
                /\ spirits'[ret'.name] = MkInt(n)
                /\ spirit_realms'[ret'.name] = "mortal"
       /\ status' \notin {"failed", "exited"}
       /\ status' = "succeeded" => pc' = 4
       /\ pc' = 4
          => /\ spirits'["x"] = written'["x"].value
             /\ spirits'["y"] = written'["y"].value
             /\ spirits'["x"].t = "int" /\ spirits'["y"].t = "int"
             /\ spirits'["z"] = MkInt(spirits'["x"].v + spirits'["y"].v)
             /\ spirit_realms'["z"] = "mortal"
             /\ spirit_realms'["x"] = "mortal" /\ spirit_realms'["y"] = "mortal"]_vars

\* C14, its case: 7 and -12 were typed in and the run succeeded with z = -5
C14_SevenMinusTwelve ==
    /\ status = "succeeded"
    /\ spirits["x"] = MkInt(7) /\ spirits["y"] = MkInt(-12)
    /\ spirits["z"] = MkInt(-5)

\* C15: an Invoke reads one line per name, in the order of the names, and
\* summons the i-th name with the i-th line before the next line is read; if
\* a read fails after k names, exactly the first k names have been bound
\* again and the statement fails.
C15_InvokeReadsInOrder ==
    [][/\ (stmt'.tag = "invoke" /\ pc' # pc)
          => /\ UNCHANGED env_vars
             /\ invoking'.active /\ invoking'.done = <<>>
       /\ invoking.active
          => LET k == Len(invoking.done) + 1
                 name == stmt.variables[k]
                 others == (DOMAIN spirits \cup DOMAIN spirits') \ {name}
             IN  \/ /\ status' = "running"
                    /\ ret'.call = "summon_spirit" /\ ret'.name = name
                    /\ name \in DOMAIN spirits'
                    /\ spirits'[name] = ConvertByRealm(ret'.raw, stmt.realm).val
                    /\ spirit_realms'[name] = stmt.realm
                    /\ \A n \in others : /\ n \in DOMAIN spirits
                                         /\ spirits'[n] = spirits[n]
                                         /\ spirit_realms'[n] = spirit_realms[n]
                    /\ IF k < Len(stmt.variables)
                       THEN /\ invoking'.active
                            /\ invoking'.done = SubSeq(stmt.variables, 1, k)
                       ELSE ~invoking'.active
                 \/ /\ status' = "failed" /\ error' = "InputFailure"
                    /\ UNCHANGED env_vars
                    /\ ~invoking'.active
                    /\ invoking'.done = SubSeq(stmt.variables, 1, k - 1)
                 \/ /\ status' = "exited"
                    /\ ret'.call = "summon_spirit" /\ ret'.name = name
                    /\ UNCHANGED env_vars
       /\ (status' = "failed" /\ stmt'.tag = "invoke")
          => \A n \in DOMAIN spirits' \cup DOMAIN before'.spirits :
                IF \E i \in 1..Len(invoking'.done) : invoking'.done[i] = n
                THEN n \in DOMAIN spirits' /\ spirits'[n] = written'[n].value
                ELSE /\ n \in DOMAIN spirits' /\ n \in DOMAIN before'.spirits
                     /\ spirits'[n] = before'.spirits[n]
                     /\ spirit_realms'[n] = before'.spirit_realms[n]]_vars

\* C15, its case: Invoke x, y failed at the read for y: x is bound, y is not
C15_FailedAtSecondRead ==
    /\ status = "failed" /\ stmt.tag = "invoke"
    /\ stmt.variables = <<"x", "y">>
    /\ invoking.done = <<"x">>
    /\ "x" \in DOMAIN spirits /\ "y" \notin DOMAIN spirits

\* C16: for a union with both slots filled, when at least one operand is a
\* bool and none is text, the result is the logical or of the two operands
\* (`left or right`); for two bools L and R it is the bool L or R.
C16_UnionOfBooleans ==
    (/\ ret.call = "manifest_union" /\ ret.op = "union"
     /\ ret.ce # None /\ ret.wf # None
     /\ ret.ce.t = "bool" \/ ret.wf.t = "bool"
     /\ ret.ce.t # "str" /\ ret.wf.t # "str")
    => /\ ret.res.ok
       /\ ret.res.val = IF Truthy(ret.ce) THEN ret.ce ELSE ret.wf
       /\ (ret.ce.t = "bool" /\ ret.wf.t = "bool")
          => ret.res.val = MkBool(ret.ce.v \/ ret.wf.v)

\* C17: for a difference of two bools L and R the result is the bool
\* (L and not R), for all four combinations.
C17_DifferenceOfBooleans ==
    (/\ ret.call = "manifest_union" /\ ret.op = "difference"
     /\ ret.ce.t = "bool" /\ ret.wf.t = "bool")
    => /\ ret.res.ok
       /\ ret.res.val = MkBool(ret.ce.v /\ ~ret.wf.v)

\* C18: union is total: for every pair of filled slots, of any variants,
\* manifest_union returns a value and never a coercion error; when no rule of
\* its own and no native addition applies, the value is str(left) + str(right).
C18_UnionTotal ==
    (/\ ret.call = "manifest_union" /\ ret.op = "union"
     /\ ret.ce # None /\ ret.wf # None)
    => /\ ret.res.ok
       /\ (/\ ret.ce.t \notin {"str", "bool"} /\ ret.wf.t \notin {"str", "bool"}
           /\ ~(ret.ce.t \in {"int", "float"} /\ ret.wf.t \in {"int", "float"})
           /\ ~(ret.ce.t = "list" /\ ret.wf.t = "list"))
          => ret.res.val = MkStr(Str(ret.ce) \o Str(ret.wf))

\* C18, its case: a dict and a datetime gave the two texts joined
C18_DictPlusDatetime ==
    /\ ret.call = "manifest_union" /\ ret.op = "union"
    /\ ret.ce.t = "dict" /\ ret.ce.v # <<>> /\ ret.wf.t = "datetime"
    /\ ret.res.ok /\ ret.res.val.t = "str"
    /\ Len(ret.res.val.v) > Len(ret.wf.v)

\* C19: for a fusion of two bools L and R the result is the bool (L and R);
\* for a fusion of a text or a list with an int n on the right, the result is
\* the left operand repeated n times (empty for n <= 0).
C19_FusionOfBooleansAndRepetition ==
    (ret.call = "manifest_union" /\ ret.op = "fusion")
    => /\ (ret.ce.t = "bool" /\ ret.wf.t = "bool")
          => /\ ret.res.ok
             /\ ret.res.val = MkBool(ret.ce.v /\ ret.wf.v)
       /\ (ret.ce.t \in {"str", "list"} /\ ret.wf.t = "int")
          => /\ ret.res.ok
             /\ ret.res.val = [t |-> ret.ce.t, v |-> Repeat(ret.ce.v, ret.wf.v)]

\* C20: summon_spirit with the realm shadow applies its rules in order, first
\* match wins: a text whose lowercase is one of true, yes, light, 1, on is
\* stored as True; one of false, no, dark, 0, off as False; otherwise a text
\* of characters 0 and 1 only as the int it denotes in base 2; otherwise as
\* bool(text). So "1" and "0" are stored as bools, "10" as the int 2, and the
\* empty text as the empty text itself.
C20_ShadowRulesInOrder ==
    (ret.call = "summon_spirit" /\ ret.realm = "shadow")
    => LET raw == ret.raw
           low == Lower(raw)
           bits[i \in 0..Len(raw)] ==
               IF i = 0 THEN 0 ELSE 2 * bits[i - 1] + (IF raw[i] = "1" THEN 1 ELSE 0)
           stored == spirits[ret.name]
       IN  /\ ret.res.ok
           /\ ret.name \in DOMAIN spirits
           /\ IF low \in {<<"t","r","u","e">>, <<"y","e","s">>, <<"l","i","g","h","t">>,
                          <<"1">>, <<"o","n">>}
              THEN stored = MkBool(TRUE)
              ELSE IF low \in {<<"f","a","l","s","e">>, <<"n","o">>, <<"d","a","r","k">>,
                               <<"0">>, <<"o","f","f">>}
              THEN stored = MkBool(FALSE)
              ELSE IF raw = <<>> THEN stored = MkStr(<<>>)
              ELSE IF \A i \in 1..Len(raw) : raw[i] \in {"0", "1"}
              THEN stored = MkInt(bits[Len(raw)])
              ELSE stored = MkBool(TRUE)
           /\ raw = <<"1">> => stored = MkBool(TRUE)
           /\ raw = <<"0">> => stored = MkBool(FALSE)
           /\ raw = <<"1","0">> => stored = MkInt(2)

\* C20, its case: the text 10 summoned under shadow is stored as the int 2
C20_ShadowTenIsTwo ==
    /\ ret.call = "summon_spirit" /\ ret.realm = "shadow"
    /\ ret.raw = <<"1","0">>
    /\ ret.name \in DOMAIN spirits /\ spirits[ret.name] = MkInt(2)

\* C21: the slots never carry operands from one manifest_union to the next:
\* of two calls of manifest_union on one engine with no channel_essence and no
\* weave_force between them, the second raises the missing-operand error,
\* whether the first returned a value or raised.
C21_NoCarryOver ==
    [][(ret.call = "manifest_union" /\ ret'.call = "manifest_union")
       => ~ret'.res.ok /\ ret'.res.exc = "MissingOperand"]_vars

\* C22: a Channel of a bound name sets the left slot to the current value of
\* the name, whatever the slot held, and leaves the right slot and the dicts
\* of SpiritRealm as they were; a Weave of a bound name does the same with the
\* right slot; a Channel or Weave of an unbound name fails with the
\* unbound-variable error and leaves both slots and the dicts as they were.
C22_StageOneSlot ==
    [][(stmt'.tag \in {"channel", "weave"} /\ pc' # pc)
       => /\ UNCHANGED env_vars
          /\ IF stmt'.variable \in DOMAIN spirits
             THEN /\ status' = "running"
                  /\ stmt'.tag = "channel"
                     => /\ channeled_essence' = spirits[stmt'.variable]
                        /\ woven_force' = woven_force
                  /\ stmt'.tag = "weave"
                     => /\ woven_force' = spirits[stmt'.variable]
                        /\ channeled_essence' = channeled_essence
             ELSE /\ status' = "failed" /\ error' = "UnboundVariable"
                  /\ UNCHANGED engine_vars]_vars

\* C22, its case: a Channel has run while the right slot held a woven value
C22_ChannelAfterWeave ==
    /\ stmt.tag = "channel" /\ status = "running"
    /\ stmt.variable \in DOMAIN spirits
    /\ channeled_essence = spirits[stmt.variable]
    /\ staged.right /\ woven_force # None

\* C23: the realm given to a Manifest result is derived from the realms of the
\* bindings whose values were staged by the preceding Channel and Weave. In
\* the program Invoke x from MORTAL; Channel x; Invoke x from any realm;
\* Manifest essence [x] as z, the value staged is the one x had under MORTAL,
\* so z is bound to that value with the realm MORTAL.
C23_RealmOfStagedValue ==
    (pc = 4 /\ stmt.tag = "manifest" /\ status \in {"running", "succeeded"}
     /\ stmt.operands = <<"x">> /\ stmt.result_variable = "z")
    => /\ "z" \in DOMAIN spirits
       /\ spirits["z"] = ret.ce
       /\ spirit_realms["z"] = "mortal"

\* C24: the type label of a binding agrees with the variant of the value
\* stored: after summon_spirit under MORTAL, SPIRIT or SHADOW a bool is
\* labelled bool, an int parsed in base 2 binary, any other int int or long, a
\* float double and a text char or string; after bind_manifestation the label
\* is the name of the value's type. So the SHADOW inputs "1" and "0", stored
\* as bools, are labelled bool.
C24_LabelAgreesWithValue ==
    /\ (ret.call = "summon_spirit" /\ ret.res.ok
        /\ ret.realm \in {"mortal", "spirit", "shadow"})
       => LET value == spirits[ret.name]
              label == spirit_types[ret.name]
          IN  CASE value.t = "bool" -> label = "bool"
                [] value.t = "int" -> IF ret.realm = "shadow" THEN label = "binary"
                                      ELSE label \in {"int", "long"}
                [] value.t = "float" -> label = "double"
                [] value.t = "str" -> label \in {"char", "string"}
                [] OTHER -> TRUE
    /\ ret.call = "bind_manifestation"
       => spirit_types[ret.name] = spirits[ret.name].t

====
